---- MODULE Spec2Model ----
(***************************************************************************)
(* The item cache and fetch orchestration of jellycli's Jellyfin client    *)
(* (api/jellyfin/item.go).  One action is one call of an exported method;  *)
(* the remote server's answers are the action's inputs.                    *)
(***************************************************************************)
EXTENDS Integers, Sequences, FiniteSets, TLC

\* ------------------------------------------------------------ bounds
\* The identifiers of the catalog.  Any id may be asked for with any method,
\* and the server may answer any id with a payload of any type.
Ids == {"a", "b"}

\* The largest child count a payload advertises.
MaxCount == 1

\* The largest number of entries in a listing response.
MaxList == 1

\* The last page GetSongs is asked for.
MaxPage == 1

\* The longest time shown, in seconds: past ten hours.
MaxSec == 37000

\* ------------------------------------------------------------ models
\* models.Id("") : the zero value of an id.
NoId == ""

TypeArtist == "Artist"

TypeAlbum == "Album"

TypeSong == "Song"

TypePlaylist == "Playlist"

\* The ItemType getItemType returns beside an error.
NoItemType == ""

\* The "Type" strings of the server's payloads.
mediaTypeArtist == "MusicArtist"

mediaTypeAlbum == "MusicAlbum"

mediaTypeSong == "Audio"

mediaTypePlaylist == "Playlist"

\* A payload without a "Type" field, and one whose type this client does not know.
NoType == "<absent>"

OtherType == "Folder"

\* A Go slice: nil, or a (possibly empty) sequence.
NilSlice == [nil |-> TRUE, elems |-> <<>>]

MakeSlice(s) == [nil |-> FALSE, elems |-> s]

len(s) == Len(s.elems)

\* A nil models.Item; also what the store holds for an id it has no entry for.
Nil == [T |-> "<nil>"]

Artist(id, count, albums) ==
  [T |-> TypeArtist, Id |-> id, AlbumCount |-> count, Albums |-> albums]

Album(id, artist, count, songs) ==
  [T |-> TypeAlbum, Id |-> id, Artist |-> artist, SongCount |-> count, Songs |-> songs]

Song(id, album, albumArtist, index) ==
  [T |-> TypeSong, Id |-> id, Album |-> album, AlbumArtist |-> albumArtist,
   Index |-> index]

Playlist(id, count) == [T |-> TypePlaylist, Id |-> id, SongCount |-> count]

\* models.Artist{} and models.Album{}
ZeroArtist == Artist(NoId, 0, NilSlice)

ZeroAlbum == Album(NoId, NoId, 0, NilSlice)

\* CompletenessPolicy
ArtistComplete(a) == ~a.Albums.nil /\ len(a.Albums) = a.AlbumCount

AlbumComplete(a) == ~a.Songs.nil /\ len(a.Songs) = a.SongCount

\* ------------------------------------------------------------ payloads
\* A JSON object of the server: the fields the decoders read.  Valid is
\* FALSE when a field has a JSON type the struct decoders reject.
Payload(id, type, count, artist, album, valid) ==
  [Id |-> id, Type |-> type, Count |-> count, Artist |-> artist, Album |-> album,
   Valid |-> valid]

NoPayload == Payload(NoId, NoType, 0, NoId, NoId, FALSE)

ArtistPayloads(id) == {Payload(id, mediaTypeArtist, n, NoId, NoId, TRUE) : n \in 0..MaxCount}

AlbumPayloads(id, artists) ==
  {Payload(id, mediaTypeAlbum, n, ar, NoId, TRUE) : n \in 0..MaxCount, ar \in artists}

SongPayloads(id, artists, albums) ==
  {Payload(id, mediaTypeSong, 0, ar, al, TRUE) : ar \in artists, al \in albums}

PlaylistPayloads(id) == {Payload(id, mediaTypePlaylist, n, NoId, NoId, TRUE) : n \in 0..MaxCount}

\* dto.toArtist(), toAlbum(), toSong(), toPlaylist(): children are never filled in.
toArtist(p) == Artist(p.Id, p.Count, NilSlice)

toAlbum(p) == Album(p.Id, p.Artist, p.Count, NilSlice)

toSong(p) == Song(p.Id, p.Album, p.Artist, 0)

toPlaylist(p) == Playlist(p.Id, p.Count)

\* ------------------------------------------------------------ responses
\* What a.get and the reading of its body give: a transport failure, a body
\* that is no JSON of the expected shape, or a payload (a list of them).
FailResp == [st |-> "fail", body |-> NoPayload]

GarbageResp == [st |-> "garbage", body |-> NoPayload]

OkResp(p) == [st |-> "ok", body |-> p]

\* No request is made: the place of a response that is never read.
NoResp == [st |-> "none", body |-> NoPayload]

FailList == [st |-> "fail", items |-> <<>>]

GarbageList == [st |-> "garbage", items |-> <<>>]

OkList(s) == [st |-> "ok", items |-> s]

NoList == [st |-> "none", items |-> <<>>]

\* Sequences over S of length at most n.
SeqUpTo(S, n) == UNION {[1..k -> S] : k \in 0..n}

\* GET /Users/<uid>/Items/<id>
EntityResps(id) ==
  IF id = NoId
  THEN {FailResp, GarbageResp, OkResp(Payload(NoId, NoType, 0, NoId, NoId, TRUE))}
  ELSE {FailResp, GarbageResp}
       \cup {OkResp(p) : p \in ArtistPayloads(id)}
       \cup {OkResp(p) : p \in AlbumPayloads(id, Ids \ {id})}
       \cup {OkResp(p) : p \in SongPayloads(id, Ids \ {id}, Ids \ {id})}
       \cup {OkResp(p) : p \in PlaylistPayloads(id)}
       \cup {OkResp(Payload(id, t, 0, NoId, NoId, TRUE)) : t \in {NoType, OtherType}}
       \cup {OkResp(Payload(id, mediaTypeAlbum, 0, NoId, NoId, FALSE))}

\* The answers a method that decodes the payload as one type tells apart: the
\* failures, the payloads of that type, and one payload of another type.
ArtistResps(id) ==
  {FailResp, GarbageResp, OkResp(Payload(id, mediaTypeArtist, 0, NoId, NoId, FALSE))}
  \cup {OkResp(p) : p \in ArtistPayloads(id)}
  \cup {OkResp(Payload(id, mediaTypeSong, 0, NoId, NoId, TRUE))}

AlbumResps(id) ==
  {FailResp, GarbageResp, OkResp(Payload(id, mediaTypeAlbum, 0, NoId, NoId, FALSE))}
  \cup {OkResp(p) : p \in AlbumPayloads(id, Ids \ {id})}
  \cup {OkResp(Payload(id, mediaTypePlaylist, 0, NoId, NoId, TRUE))}

\* GET /Users/<uid>/Items?AlbumArtistIds=<id>: albums of the artist, never the
\* artist itself.
AlbumListResps(id) ==
  {FailList, GarbageList}
  \cup {OkList(s) :
          s \in SeqUpTo({Payload(k, mediaTypeAlbum, MaxCount, id, NoId, TRUE) : k \in Ids \ {id}},
                        MaxList)}

\* GET /Users/<uid>/Items?ParentId=<album>: songs of the album, never the album itself.
SongListResps(album) ==
  {FailList, GarbageList}
  \cup {OkList(s) :
          s \in SeqUpTo(UNION {SongPayloads(k, {NoId}, {album}) : k \in Ids \ {album}}, MaxList)}

\* GET /Users/<uid>/Items?IncludeItemTypes=Playlist
PlaylistListResps ==
  {FailList, GarbageList}
  \cup {OkList(s) :
          s \in SeqUpTo({Payload(k, mediaTypePlaylist, MaxCount, NoId, NoId, TRUE) : k \in Ids},
                        MaxList)}

\* GET /Users/<uid>/Items with ParentId=<playlist>, with paging, or with Ids:
\* songs of any album; limit is the most entries the request allows.
SongResps(limit) ==
  {FailList, GarbageList}
  \cup {OkList(s) :
          s \in SeqUpTo({Payload(k, mediaTypeSong, 0, NoId, NoId, TRUE) : k \in Ids}, limit)}

\* GET /Users/<uid>/Items/Latest: a JSON array of albums.
LatestResps ==
  {FailList, GarbageList}
  \cup {OkList(s) :
          s \in SeqUpTo({Payload(k, mediaTypeAlbum, MaxCount, NoId, NoId, TRUE) : k \in Ids},
                        MaxList)}

\* ------------------------------------------------------------ the store
\* cache.Get
Get(c, id) ==
  IF id \in DOMAIN c /\ c[id] # Nil
  THEN [item |-> c[id], found |-> TRUE]
  ELSE [item |-> Nil, found |-> FALSE]

\* cache.Put
Put(c, id, item, overwrite) ==
  IF ~overwrite /\ c[id] # Nil THEN c ELSE [c EXCEPT ![id] = item]

\* cache.Delete
Delete(c, id) == [c EXCEPT ![id] = Nil]

RECURSIVE PutAll(_, _, _, _)
PutAll(c, items, n, overwrite) ==
  IF n = 0 THEN c
  ELSE Put(PutAll(c, items, n - 1, overwrite), items[n].Id, items[n], overwrite)

\* cache.PutBatch: reject is the first write the store refuses (0: none); the
\* writes before it stay.
PutBatch(c, items, overwrite, reject) ==
  IF reject \in 1..Len(items)
  THEN [cache |-> PutAll(c, items, reject - 1, overwrite), err |-> TRUE]
  ELSE [cache |-> PutAll(c, items, Len(items), overwrite), err |-> FALSE]

\* cache.PutList: the list of the name is replaced.
PutList(ls, name, ids) == [ls EXCEPT ![name] = ids]

\* cache.GetArtist(albumId): the artist of a stored album, when the store holds
\* that artist too; nil otherwise.
CacheGetArtist(c, albumId) ==
  LET al == Get(c, albumId).item
  IN  IF al # Nil /\ al.T = TypeAlbum /\ Get(c, al.Artist).item # Nil
         /\ Get(c, al.Artist).item.T = TypeArtist
      THEN Get(c, al.Artist).item
      ELSE Nil

\* ------------------------------------------------------------ results
NoErr == ""

\* One step a call takes on the store or on the network.
Ev(kind, id) == <<kind, id>>

\* What a call leaves: the store, its error and value, the steps it took and
\* the single-entity responses it read.
Res(c, err, ret, log, resps) ==
  [cache |-> c, err |-> err, ret |-> ret, log |-> log, resps |-> resps]

MapSeq(s, Op(_)) == [i \in 1..Len(s) |-> Op(s[i])]

IdOf(item) == item.Id

\* The number of remote queries among the steps of a call.
Queries(log) == Cardinality({i \in 1..Len(log) : log[i][1] = "query"})

\* The place of the first step of a kind (0: none).
First(log, kind) ==
  IF \E i \in 1..Len(log) : log[i][1] = kind
  THEN CHOOSE i \in 1..Len(log) : log[i][1] = kind /\ \A j \in 1..(i - 1) : log[j][1] # kind
  ELSE 0

\* ------------------------------------------------------------ GetItem
getItemType(dto) ==
  IF dto.Type = NoType THEN [type |-> NoItemType, err |-> "invalid type"]
  ELSE IF dto.Type = mediaTypeArtist THEN [type |-> TypeArtist, err |-> NoErr]
  ELSE IF dto.Type = mediaTypeAlbum THEN [type |-> TypeAlbum, err |-> NoErr]
  ELSE IF dto.Type = mediaTypeSong THEN [type |-> TypeSong, err |-> NoErr]
  ELSE [type |-> NoItemType, err |-> "unknown type"]

\* The switch of GetItem: the decoder of the item type.
DecodeItem(itemT, p) ==
  IF itemT = TypeSong THEN toSong(p)
  ELSE IF itemT = TypeAlbum THEN toAlbum(p)
  ELSE IF itemT = TypeArtist THEN toArtist(p)
  ELSE IF itemT = TypePlaylist THEN toPlaylist(p)
  ELSE Nil

\* FetchItem with the store made before the decoding of the variant is checked.
FetchItemStoreFirst(c, id, resp) ==
  LET log == <<Ev("Get", id), Ev("query", id)>>
  IN  IF resp.st = "fail" THEN Res(c, "get item by id", Nil, log, <<resp>>)
      ELSE IF resp.st = "garbage" THEN Res(c, "parse json response", Nil, log, <<resp>>)
      ELSE LET itemT == getItemType(resp.body)
               item == DecodeItem(itemT.type, resp.body)
           IN  IF itemT.err # NoErr THEN Res(c, "invalid item type", Nil, log, <<resp>>)
               ELSE IF item = Nil THEN Res(c, "unknown item type", Nil, log, <<resp>>)
               ELSE IF ~resp.body.Valid
                 THEN Res(Put(c, id, item, TRUE), "decode item", Nil, log, <<resp>>)
               ELSE Res(Put(c, id, item, TRUE), NoErr, item,
                        Append(log, Ev("Put", id)), <<resp>>)

\* GetItem past the cache: the query, the two decodings and the store.
FetchItem(c, id, resp) ==
  LET log == <<Ev("Get", id), Ev("query", id)>>
  IN  IF resp.st = "fail" THEN Res(c, "get item by id", Nil, log, <<resp>>)
      ELSE IF resp.st = "garbage" THEN Res(c, "parse json response", Nil, log, <<resp>>)
      ELSE LET itemT == getItemType(resp.body)
               item == DecodeItem(itemT.type, resp.body)
           IN  IF itemT.err # NoErr THEN Res(c, "invalid item type", Nil, log, <<resp>>)
               ELSE IF item = Nil THEN Res(c, "unknown item type", Nil, log, <<resp>>)
               ELSE IF ~resp.body.Valid THEN Res(c, "decode item", Nil, log, <<resp>>)
               ELSE Res(Put(c, id, item, TRUE), NoErr, item,
                        Append(log, Ev("Put", id)), <<resp>>)

\* GetItem without the cache check.
GetItemNoCache(c, id, resp) == FetchItem(c, id, resp)

GetItem(c, id, resp) ==
  LET hit == Get(c, id)
  IN  IF hit.found /\ hit.item # Nil
      THEN Res(c, NoErr, hit.item, <<Ev("Get", id)>>, <<>>)
      ELSE FetchItem(c, id, resp)

\* ------------------------------------------------------------ GetArtist
parseAlbums(lresp) ==
  IF lresp.st = "garbage"
  THEN [albumList |-> NilSlice, err |-> "decode json"]
  ELSE [albumList |-> MakeSlice(MapSeq(lresp.items, toAlbum)), err |-> NoErr]

GetArtistAlbums(c, id, lresp) ==
  LET log == <<Ev("query", id)>>
  IN  IF lresp.st = "fail" THEN Res(c, "get artist albums", NilSlice, log, <<>>)
      ELSE Res(c, NoErr, parseAlbums(lresp).albumList, log, <<>>)

\* ArtistLookup without the eviction of an item of another type.
ArtistLookupNoEvict(c, id) ==
  LET hit == Get(c, id)
  IN  IF ~(hit.found /\ hit.item # Nil) THEN "miss"
      ELSE IF hit.item.T # TypeArtist THEN "miss"
      ELSE IF hit.item.Albums.nil THEN "miss"
      ELSE IF len(hit.item.Albums) = hit.item.AlbumCount THEN "hit"
      ELSE "evict"

\* The cache check GetArtist opens with: "hit" (return the cached artist),
\* "evict" (delete the slot, then fetch) or "miss" (fetch).
ArtistLookup(c, id) ==
  LET hit == Get(c, id)
  IN  IF ~(hit.found /\ hit.item # Nil) THEN "miss"
      ELSE IF hit.item.T # TypeArtist THEN "evict"
      ELSE IF hit.item.Albums.nil THEN "miss"
      ELSE IF len(hit.item.Albums) = hit.item.AlbumCount THEN "hit"
      ELSE "evict"

\* AssembleArtist with the count set as GetAlbum sets it.
AssembleArtistCounted(ar, ids) ==
  [ar EXCEPT !.AlbumCount = Len(ids), !.Albums = MakeSlice(ids)]

\* The artist GetArtist assembles from the decoded artist and the album ids.
AssembleArtist(ar, ids) == [ar EXCEPT !.Albums = MakeSlice(ids)]

\* CacheArtist with the artist stored before the batch of its albums.
CacheArtistFirst(c, id, ar, albums, reject) ==
  LET ids == MapSeq(albums, IdOf)
      full == AssembleArtist(ar, ids)
      pb == PutBatch(Put(c, id, full, TRUE), albums, TRUE, reject)
  IN  IF pb.err
      THEN Res(pb.cache, "store artist albums to cache", ar, <<Ev("Put", id), Ev("PutBatch", id)>>, <<>>)
      ELSE Res(pb.cache, NoErr, full, <<Ev("Put", id), Ev("PutBatch", id)>>, <<>>)

\* The end of GetArtist: the albums go to the store in one batch, then the artist.
CacheArtist(c, id, ar, albums, reject) ==
  LET ids == MapSeq(albums, IdOf)
      pb == PutBatch(c, albums, TRUE, reject)
      full == AssembleArtist(ar, ids)
  IN  IF pb.err
      THEN Res(pb.cache, "store artist albums to cache", ar, <<Ev("PutBatch", id)>>, <<>>)
      ELSE Res(Put(pb.cache, id, full, TRUE), NoErr, full,
               <<Ev("PutBatch", id), Ev("Put", id)>>, <<>>)

GetArtist(c, id, resp, lresp, reject) ==
  LET look == ArtistLookup(c, id)
      c1 == IF look = "evict" THEN Delete(c, id) ELSE c
      l1 == <<Ev("Get", id)>> \o (IF look = "evict" THEN <<Ev("Delete", id)>> ELSE <<>>)
      l2 == Append(l1, Ev("query", id))
  IN  IF look = "hit" THEN Res(c, NoErr, Get(c, id).item, l1, <<>>)
      ELSE IF resp.st = "fail" THEN Res(c1, "get artist", ZeroArtist, l2, <<resp>>)
      ELSE IF resp.st = "garbage" \/ ~resp.body.Valid
        THEN Res(c1, "parse artist", ZeroArtist, l2, <<resp>>)
      ELSE
        LET ar == toArtist(resp.body)
            la == GetArtistAlbums(c1, id, lresp)
            l3 == l2 \o la.log
        IN  IF la.err # NoErr THEN Res(la.cache, "get artist albums", ar, l3, <<resp>>)
            ELSE LET r == CacheArtist(la.cache, id, ar, la.ret.elems, reject)
                 IN  Res(r.cache, r.err, r.ret, l3 \o r.log, <<resp>>)

\* ------------------------------------------------------------ GetAlbum
\* GetAlbumSongs that also hangs the ids of the songs on the album stored
\* under the parent id.
GetAlbumSongsAttach(c, album, lresp) ==
  LET log == <<Ev("query", album)>>
  IN  IF lresp.st = "fail" THEN Res(c, "get album Songs", NilSlice, log, <<>>)
      ELSE IF lresp.st = "garbage" THEN Res(c, "failed to parse Songs", NilSlice, log, <<>>)
      ELSE LET songs == MapSeq(lresp.items, toSong)
               c1 == PutAll(c, songs, Len(songs), TRUE)
               c2 == IF c1[album] # Nil /\ c1[album].T = TypeAlbum
                     THEN [c1 EXCEPT ![album].Songs = MakeSlice(MapSeq(songs, IdOf))]
                     ELSE c1
           IN  Res(c2, NoErr, MakeSlice(songs),
                   log \o [i \in 1..Len(songs) |-> Ev("Put", songs[i].Id)], <<>>)

GetAlbumSongs(c, album, lresp) ==
  LET log == <<Ev("query", album)>>
  IN  IF lresp.st = "fail" THEN Res(c, "get album Songs", NilSlice, log, <<>>)
      ELSE IF lresp.st = "garbage" THEN Res(c, "failed to parse Songs", NilSlice, log, <<>>)
      ELSE LET songs == MapSeq(lresp.items, toSong)
           IN  Res(PutAll(c, songs, Len(songs), TRUE), NoErr, MakeSlice(songs),
                   log \o [i \in 1..Len(songs) |-> Ev("Put", songs[i].Id)], <<>>)

\* AlbumLookup without the nil check of Songs.
AlbumLookupNoNilCheck(c, id) ==
  LET hit == Get(c, id)
  IN  IF ~(hit.found /\ hit.item # Nil) THEN "miss"
      ELSE IF hit.item.T # TypeAlbum THEN "evict"
      ELSE IF len(hit.item.Songs) = hit.item.SongCount THEN "hit"
      ELSE "evict"

\* The cache check GetAlbum opens with.
AlbumLookup(c, id) ==
  LET hit == Get(c, id)
  IN  IF ~(hit.found /\ hit.item # Nil) THEN "miss"
      ELSE IF hit.item.T # TypeAlbum THEN "evict"
      ELSE IF hit.item.Songs.nil THEN "miss"
      ELSE IF len(hit.item.Songs) = hit.item.SongCount THEN "hit"
      ELSE "evict"

\* SetAlbumArtist that leaves the songs as they were decoded.
SetAlbumArtistNone(songs, artist) == songs

\* for _, v := range songs { v.AlbumArtist = al.Artist }
SetAlbumArtist(songs, artist) ==
  [i \in 1..Len(songs) |-> [songs[i] EXCEPT !.AlbumArtist = artist]]

\* AssembleAlbum with the count left as decoded, as GetArtist leaves it.
AssembleAlbumUncounted(al, ids) == [al EXCEPT !.Songs = MakeSlice(ids)]

\* The album GetAlbum assembles from the decoded album and the song ids.
AssembleAlbum(al, ids) == [al EXCEPT !.SongCount = Len(ids), !.Songs = MakeSlice(ids)]

\* The end of GetAlbum.  The songs are the objects GetAlbumSongs has put in the
\* store, so setting their AlbumArtist changes the stored songs too.
CacheAlbum(c, id, al, fetched, reject) ==
  LET songs == SetAlbumArtist(fetched, al.Artist)
      c1 == PutAll(c, songs, Len(songs), TRUE)
      ids == MapSeq(songs, IdOf)
      pb == PutBatch(c1, songs, TRUE, reject)
      full == AssembleAlbum(al, ids)
  IN  IF pb.err
      THEN Res(pb.cache, "store artist albums to cache", al, <<Ev("PutBatch", id)>>, <<>>)
      ELSE Res(Put(pb.cache, id, full, TRUE), NoErr, full,
               <<Ev("PutBatch", id), Ev("Put", id)>>, <<>>)

GetAlbum(c, id, resp, lresp, reject) ==
  LET look == AlbumLookup(c, id)
      c1 == IF look = "evict" THEN Delete(c, id) ELSE c
      l1 == <<Ev("Get", id)>> \o (IF look = "evict" THEN <<Ev("Delete", id)>> ELSE <<>>)
      l2 == Append(l1, Ev("query", id))
  IN  IF look = "hit" THEN Res(c, NoErr, Get(c, id).item, l1, <<>>)
      ELSE IF resp.st = "fail" THEN Res(c1, "get album", ZeroAlbum, l2, <<resp>>)
      ELSE IF resp.st = "garbage" \/ ~resp.body.Valid
        THEN Res(c1, "parse album", ZeroAlbum, l2, <<resp>>)
      ELSE
        LET al == toAlbum(resp.body)
            ls == GetAlbumSongs(c1, id, lresp)
            l3 == l2 \o ls.log
        IN  IF ls.err # NoErr THEN Res(ls.cache, "get albums songs", al, l3, <<resp>>)
            ELSE LET r == CacheAlbum(ls.cache, id, al, ls.ret.elems, reject)
                 IN  Res(r.cache, r.err, r.ret, l3 \o r.log, <<resp>>)

\* ------------------------------------------------------------ GetPlaylists
\* body: what the decoder reads when a.get has failed, which a.get decides:
\* no reader at all ("nil": the decoder panics), or the body of the failed
\* response ("garbage", or "json": an object without Items).
GetPlaylists(c, lresp, body) ==
  LET log == <<Ev("query", NoId)>>
  IN  IF lresp.st = "fail" /\ body = "nil" THEN Res(c, "panic", NilSlice, log, <<>>)
      ELSE IF lresp.st = "garbage" \/ (lresp.st = "fail" /\ body = "garbage")
        THEN Res(c, "parse playlists", MakeSlice(<<>>), log, <<>>)
      ELSE LET data == MapSeq(lresp.items, toPlaylist)
           IN  Res(PutAll(c, data, Len(data), TRUE), NoErr, MakeSlice(data),
                   log \o [i \in 1..Len(data) |-> Ev("Put", data[i].Id)], <<>>)

\* ------------------------------------------------------------ song listings
GetPlaylistSongs(c, playlist, lresp) ==
  LET log == <<Ev("query", playlist)>>
  IN  IF lresp.st = "fail" THEN Res(c, "get playlist songs", MakeSlice(<<>>), log, <<>>)
      ELSE IF lresp.st = "garbage" THEN Res(c, "decode json", MakeSlice(<<>>), log, <<>>)
      ELSE Res(c, NoErr, MakeSlice(MapSeq(lresp.items, toSong)), log, <<>>)

\* songs[i].Index = pageSize*pageSize + i + 1, i counted from 0
GetSongs(c, page, pageSize, lresp) ==
  LET log == <<Ev("query", NoId)>>
  IN  IF lresp.st = "fail" THEN Res(c, "get songs", MakeSlice(<<>>), log, <<>>)
      ELSE IF lresp.st = "garbage" THEN Res(c, "decode json", MakeSlice(<<>>), log, <<>>)
      ELSE Res(c, NoErr,
               MakeSlice([i \in 1..Len(lresp.items) |->
                            [toSong(lresp.items[i]) EXCEPT !.Index = pageSize * pageSize + i]]),
               log, <<>>)

\* songs[i].Index = i + 1, i counted from 0
GetSongsById(c, ids, lresp) ==
  IF Len(ids) = 0 THEN Res(c, "ids cannot be empty", MakeSlice(<<>>), <<>>, <<>>)
  ELSE LET log == <<Ev("query", NoId)>>
       IN  IF lresp.st = "fail" THEN Res(c, "get songs by id", MakeSlice(<<>>), log, <<>>)
           ELSE IF lresp.st = "garbage" THEN Res(c, "decode json", MakeSlice(<<>>), log, <<>>)
           ELSE Res(c, NoErr,
                    MakeSlice([i \in 1..Len(lresp.items) |->
                                 [toSong(lresp.items[i]) EXCEPT !.Index = i]]),
                    log, <<>>)

\* ------------------------------------------------------------ GetSongArtistAlbum
NoPair == [album |-> Nil, artist |-> Nil]

\* album, ok = item.(*models.Album); if !ok { album = nil }
AsAlbum(item) == IF item.T = TypeAlbum THEN item ELSE Nil

\* AsArtist without the type assertion.
AsArtistUnchecked(item) == item

\* artist, ok = item.(*models.Artist)
AsArtist(item) == IF item.T = TypeArtist THEN item ELSE Nil

GetSongArtistAlbum(c, song, r1, r2) ==
  LET h1 == GetItem(c, song.Album, r1)
      album == IF h1.err = NoErr THEN AsAlbum(h1.ret) ELSE Nil
      c1 == IF album # Nil THEN Put(h1.cache, h1.ret.Id, h1.ret, TRUE) ELSE h1.cache
      l1 == h1.log \o (IF album # Nil THEN <<Ev("Put", h1.ret.Id)>> ELSE <<>>)
  IN  IF album = Nil
      THEN Res(c1, IF h1.err = NoErr THEN "album not found" ELSE h1.err, NoPair, l1,
               h1.resps)
      ELSE
        LET h2 == GetItem(c1, album.Artist, r2)
            artist == IF h2.err = NoErr THEN AsArtist(h2.ret) ELSE Nil
            c2 == IF artist # Nil THEN Put(h2.cache, h2.ret.Id, h2.ret, TRUE) ELSE h2.cache
            l2 == l1 \o h2.log \o (IF artist # Nil THEN <<Ev("Put", h2.ret.Id)>> ELSE <<>>)
        IN  IF artist = Nil THEN Res(c2, "not found", NoPair, l2, h1.resps \o h2.resps)
            ELSE Res(c2, NoErr, [album |-> album, artist |-> artist], l2,
                     h1.resps \o h2.resps)

\* ------------------------------------------------------------ GetAlbumArtist
GetAlbumArtist(c, album, resp, lresp, reject) ==
  LET artist == CacheGetArtist(c, album.Id)
  IN  IF artist # Nil THEN Res(c, NoErr, artist, <<Ev("Get", album.Id)>>, <<>>)
      ELSE LET r == GetArtist(c, album.Artist, resp, lresp, reject)
               log == <<Ev("Get", album.Id)>> \o r.log
           IN  IF r.err # NoErr THEN Res(r.cache, "get artist", Nil, log, r.resps)
               ELSE Res(Put(r.cache, r.ret.Id, r.ret, TRUE), NoErr, r.ret,
                        Append(log, Ev("Put", r.ret.Id)), r.resps)

\* ------------------------------------------------------------ GetLatestAlbums
\* What GetLatestAlbums leaves: as Res, with the named lists of the store.
ResLists(r, ls) ==
  [cache |-> r.cache, lists |-> ls, err |-> r.err, ret |-> r.ret, log |-> r.log,
   resps |-> r.resps]

\* GetLatestAlbums with the list written before the answer is known to decode.
GetLatestAlbumsEager(c, ls, lresp) ==
  LET log == <<Ev("query", NoId)>>
      albums == MapSeq(lresp.items, toAlbum)
      ls1 == PutList(ls, "latest_music", MapSeq(albums, IdOf))
  IN  IF lresp.st = "fail"
      THEN ResLists(Res(c, "request latest albums", NilSlice, log, <<>>), ls1)
      ELSE IF lresp.st = "garbage"
        THEN ResLists(Res(c, "parse latest albums", NilSlice, log, <<>>), ls1)
      ELSE ResLists(Res(c, NoErr, MakeSlice(albums), Append(log, Ev("PutList", NoId)), <<>>),
                    ls1)

GetLatestAlbums(c, ls, lresp) ==
  LET log == <<Ev("query", NoId)>>
      albums == MapSeq(lresp.items, toAlbum)
  IN  IF lresp.st = "fail"
      THEN ResLists(Res(c, "request latest albums", NilSlice, log, <<>>), ls)
      ELSE IF lresp.st = "garbage"
        THEN ResLists(Res(c, "parse latest albums", NilSlice, log, <<>>), ls)
      ELSE ResLists(Res(c, NoErr, MakeSlice(albums), Append(log, Ev("PutList", NoId)), <<>>),
                    PutList(ls, "latest_music", MapSeq(albums, IdOf)))

\* ------------------------------------------------------------ SecToString
\* A string is the sequence of its characters.
Digit(d) == <<"0", "1", "2", "3", "4", "5", "6", "7", "8", "9">>[d + 1]

\* fmt's %d of a number that is not negative.
RECURSIVE Itoa(_)
Itoa(n) == IF n < 10 THEN <<Digit(n)>> ELSE Append(Itoa(n \div 10), Digit(n % 10))

\* fmt's %02d of a number that is not negative: at least two digits, zeros
\* in front.
Pad2(n) == IF Len(Itoa(n)) < 2 THEN <<"0">> \o Itoa(n) ELSE Itoa(n)

\* SecToString with the minutes of the whole time in the long form.
SecToStringTotalMinutes(sec) ==
  IF sec < 60 THEN <<"0", ":">> \o Pad2(sec)
  ELSE LET minutes == sec \div 60
       IN  IF sec < 3600 THEN Itoa(minutes) \o <<":">> \o Pad2(sec % 60)
           ELSE LET hours == sec \div 3600
                IN  Itoa(hours) \o <<":">> \o Pad2(minutes) \o <<":">>
                    \o Pad2((sec % 3600) % 60)

SecToString(sec) ==
  IF sec < 60 THEN <<"0", ":">> \o Pad2(sec)
  ELSE LET minutes == sec \div 60
       IN  IF sec < 3600 THEN Itoa(minutes) \o <<":">> \o Pad2(sec % 60)
           ELSE LET hours == sec \div 3600
                IN  Itoa(hours) \o <<":">> \o Pad2(minutes - 60 * hours) \o <<":">>
                    \o Pad2((sec % 3600) % 60)

\* ------------------------------------------------------------ state
\* cache: the store of the client.  last: the call made last, for the claims
\* to speak of: the method, its argument, what the slot of the argument held
\* when the call began, and what the call left.
VARIABLES cache, last

\* lists: the named id-lists of the store.  server, pc, loc: the concurrent
\* callers (below) and the server they ask; the calls made one at a time leave
\* them alone.
VARIABLES lists, server, pc, loc

\* sec: a time in seconds.  text: the string SecToString has made of it, empty
\* before.  The calls of the catalog leave them alone.
VARIABLES sec, text

vars == <<cache, last, lists, server, pc, loc, sec, text>>

aside == <<lists, server, pc, loc, sec, text>>

\* The callers that run at the same time.
Callers == {"x", "y"}

NoLists == [latest_music |-> <<>>]

NoServer == [ent |-> NoResp, albums |-> NoList, songs |-> NoList]

Call(op, id, had, r) ==
  [op |-> op, id |-> id, had |-> had, err |-> r.err, ret |-> r.ret, log |-> r.log,
   resps |-> r.resps]

\* The locals of a caller before its call.
NoLocals ==
  [m |-> "", ent |-> Nil, kids |-> <<>>, k |-> 0, evicted |-> Nil, fault |-> FALSE,
   err |-> NoErr, ret |-> Nil]

Init ==
  /\ cache = [i \in Ids |-> Nil]
  /\ last = Call("new", NoId, Nil, Res(cache, NoErr, Nil, <<>>, <<>>))
  /\ lists = NoLists
  /\ server = NoServer
  /\ pc = [p \in Callers |-> "idle"]
  /\ loc = [p \in Callers |-> NoLocals]
  /\ sec = 0
  /\ text = <<>>

\* The responses a call reads: none when it makes no request.
EntityRespsIf(needed, id) == IF needed THEN EntityResps(id) ELSE {NoResp}

ArtistRespsIf(needed, id) == IF needed THEN ArtistResps(id) ELSE {NoResp}

AlbumRespsIf(needed, id) == IF needed THEN AlbumResps(id) ELSE {NoResp}

\* The writes of a batch the store may refuse.
Rejects(lresp) == 0..Len(lresp.items)

Decodes(resp) == resp.st = "ok" /\ resp.body.Valid

GetItemCall(id) ==
  \E resp \in EntityRespsIf(~Get(cache, id).found, id) :
    LET r == GetItem(cache, id, resp)
    IN  /\ cache' = r.cache
        /\ last' = Call("GetItem", id, cache[id], r)
        /\ UNCHANGED aside

GetArtistCall(id) ==
  \E resp \in ArtistRespsIf(ArtistLookup(cache, id) # "hit", id) :
    \E lresp \in (IF Decodes(resp) THEN AlbumListResps(id) ELSE {NoList}) :
      \E reject \in Rejects(lresp) :
        LET r == GetArtist(cache, id, resp, lresp, reject)
        IN  /\ cache' = r.cache
            /\ last' = Call("GetArtist", id, cache[id], r)
            /\ UNCHANGED aside

GetArtistAlbumsCall(id) ==
  \E lresp \in AlbumListResps(id) :
    LET r == GetArtistAlbums(cache, id, lresp)
    IN  /\ cache' = r.cache
        /\ last' = Call("GetArtistAlbums", id, cache[id], r)
        /\ UNCHANGED aside

GetAlbumCall(id) ==
  \E resp \in AlbumRespsIf(AlbumLookup(cache, id) # "hit", id) :
    \E lresp \in (IF Decodes(resp) THEN SongListResps(id) ELSE {NoList}) :
      \E reject \in Rejects(lresp) :
        LET r == GetAlbum(cache, id, resp, lresp, reject)
        IN  /\ cache' = r.cache
            /\ last' = Call("GetAlbum", id, cache[id], r)
            /\ UNCHANGED aside

GetAlbumSongsCall(id) ==
  \E lresp \in SongListResps(id) :
    LET r == GetAlbumSongs(cache, id, lresp)
    IN  /\ cache' = r.cache
        /\ last' = Call("GetAlbumSongs", id, cache[id], r)
        /\ UNCHANGED aside

GetPlaylistsCall ==
  \E lresp \in PlaylistListResps :
    \E body \in (IF lresp.st = "fail" THEN {"nil", "garbage", "json"} ELSE {"json"}) :
      LET r == GetPlaylists(cache, lresp, body)
      IN  /\ cache' = r.cache
          /\ last' = Call("GetPlaylists", NoId, Nil, r)
          /\ UNCHANGED aside

\* The caller's song: a song of the album albumId.
GetSongArtistAlbumCall(albumId) ==
  LET song == Song(NoId, albumId, NoId, 0)
  IN  \E r1 \in EntityRespsIf(~Get(cache, albumId).found, albumId) :
        LET h1 == GetItem(cache, albumId, r1)
            hop2 == h1.err = NoErr /\ h1.ret.T = TypeAlbum
        IN  \E r2 \in EntityRespsIf(hop2 /\ ~Get(h1.cache, h1.ret.Artist).found,
                                    IF hop2 THEN h1.ret.Artist ELSE NoId) :
              LET r == GetSongArtistAlbum(cache, song, r1, r2)
              IN  /\ cache' = r.cache
                  /\ last' = Call("GetSongArtistAlbum", albumId, cache[albumId], r)
                  /\ UNCHANGED aside

GetPlaylistSongsCall(id) ==
  \E lresp \in SongResps(MaxList) :
    LET r == GetPlaylistSongs(cache, id, lresp)
    IN  /\ cache' = r.cache
        /\ last' = Call("GetPlaylistSongs", id, cache[id], r)
        /\ UNCHANGED aside

GetSongsCall ==
  \E page \in 0..MaxPage, pageSize \in 1..MaxList :
    \E lresp \in SongResps(pageSize) :
      LET r == GetSongs(cache, page, pageSize, lresp)
      IN  /\ cache' = r.cache
          /\ last' = Call("GetSongs", NoId, Nil, r)
          /\ UNCHANGED aside

GetSongsByIdCall ==
  \E ids \in SeqUpTo(Ids, MaxList) :
    \E lresp \in (IF Len(ids) = 0 THEN {NoList} ELSE SongResps(Len(ids))) :
      LET r == GetSongsById(cache, ids, lresp)
      IN  /\ cache' = r.cache
          /\ last' = Call("GetSongsById", NoId, Nil, r)
          /\ UNCHANGED aside

Next ==
  \/ \E id \in Ids : GetItemCall(id)
  \/ \E id \in Ids : GetArtistCall(id)
  \/ \E id \in Ids : GetArtistAlbumsCall(id)
  \/ \E id \in Ids : GetAlbumCall(id)
  \/ \E id \in Ids : GetAlbumSongsCall(id)
  \/ GetPlaylistsCall
  \/ \E id \in Ids : GetSongArtistAlbumCall(id)

Spec == Init /\ [][Next]_vars

\* The caller's album: an album the store holds, with the id of its artist.
GetAlbumArtistCall(albumId) ==
  /\ cache[albumId] # Nil /\ cache[albumId].T = TypeAlbum
  /\ cache[albumId].Artist \in Ids
  /\ LET album == cache[albumId]
         fetch == CacheGetArtist(cache, albumId) = Nil
     IN  \E resp \in ArtistRespsIf(fetch /\ ArtistLookup(cache, album.Artist) # "hit",
                                    album.Artist) :
           \E lresp \in (IF Decodes(resp) THEN AlbumListResps(album.Artist) ELSE {NoList}) :
             \E reject \in Rejects(lresp) :
               LET r == GetAlbumArtist(cache, album, resp, lresp, reject)
               IN  /\ cache' = r.cache
                   /\ last' = Call("GetAlbumArtist", albumId, cache[albumId], r)
                   /\ UNCHANGED aside

\* An id-list as the value a call found: the list "latest_music" before the call.
HadList(ids) == [T |-> "<list>", ids |-> ids]

GetLatestAlbumsCall ==
  \E lresp \in LatestResps :
    LET r == GetLatestAlbums(cache, lists, lresp)
    IN  /\ cache' = r.cache
        /\ lists' = r.lists
        /\ last' = Call("GetLatestAlbums", NoId, HadList(lists.latest_music), r)
        /\ UNCHANGED <<server, pc, loc, sec, text>>

\* The refreshes of the latest albums, among lookups of single items.
NextLatest ==
  \/ GetLatestAlbumsCall
  \/ \E id \in Ids : GetItemCall(id)

SpecLatest == Init /\ [][NextLatest]_vars

\* The time to show: any number of seconds up to MaxSec.
InitTime ==
  /\ cache = [i \in Ids |-> Nil]
  /\ last = Call("new", NoId, Nil, Res(cache, NoErr, Nil, <<>>, <<>>))
  /\ lists = NoLists
  /\ server = NoServer
  /\ pc = [p \in Callers |-> "idle"]
  /\ loc = [p \in Callers |-> NoLocals]
  /\ sec \in 0..MaxSec
  /\ text = <<>>

SecToStringCall ==
  /\ text' = SecToString(sec)
  /\ UNCHANGED <<cache, last, lists, server, pc, loc, sec>>

NextTime == SecToStringCall

SpecTime == InitTime /\ [][NextTime]_vars

\* Every operation, called one at a time.
NextAll ==
  \/ \E id \in Ids : GetItemCall(id)
  \/ \E id \in Ids : GetArtistCall(id)
  \/ \E id \in Ids : GetArtistAlbumsCall(id)
  \/ \E id \in Ids : GetAlbumCall(id)
  \/ \E id \in Ids : GetAlbumSongsCall(id)
  \/ GetPlaylistsCall
  \/ \E id \in Ids : GetSongArtistAlbumCall(id)
  \/ \E id \in Ids : GetPlaylistSongsCall(id)
  \/ GetSongsCall
  \/ GetSongsByIdCall
  \/ \E id \in Ids : GetAlbumArtistCall(id)

SpecAll == Init /\ [][NextAll]_vars

\* The fetches of single entities and of their children: GetItem, the two
\* full-detail fetches and their listings.
NextFetch ==
  \/ \E id \in Ids : GetItemCall(id)
  \/ \E id \in Ids : GetArtistCall(id)
  \/ \E id \in Ids : GetArtistAlbumsCall(id)
  \/ \E id \in Ids : GetAlbumCall(id)
  \/ \E id \in Ids : GetAlbumSongsCall(id)

SpecFetch == Init /\ [][NextFetch]_vars

\* The listing fetches, with the two full-detail fetches that set a parent's
\* list of children.
NextListings ==
  \/ \E id \in Ids : GetArtistCall(id)
  \/ \E id \in Ids : GetArtistAlbumsCall(id)
  \/ \E id \in Ids : GetAlbumCall(id)
  \/ \E id \in Ids : GetAlbumSongsCall(id)
  \/ \E id \in Ids : GetPlaylistSongsCall(id)
  \/ GetSongsCall
  \/ GetSongsByIdCall

SpecListings == Init /\ [][NextListings]_vars

\* ------------------------------------------------------------ the caller's writes
\* The store keeps the pointer it is given and Get returns it.  The slots whose
\* stored object the value returned by the call l points to: GetItem returns
\* the item it read from the store or has just put there, GetAlbumSongs returns
\* the songs it has put.
Handed(l) ==
  IF l.err # NoErr THEN {}
  ELSE IF l.op = "GetItem" THEN {l.id}
  ELSE IF l.op = "GetAlbumSongs" THEN {l.ret.elems[i].Id : i \in 1..len(l.ret)}
  ELSE {}

\* The slots whose stored list of children shares its array with the value the
\* call l returned: GetArtist and GetAlbum return the struct by value, and the
\* copy keeps the slice of the stored struct.
Shared(l) ==
  IF l.err = NoErr /\ l.op \in {"GetArtist", "GetAlbum"}
     /\ (IF l.op = "GetArtist" THEN len(l.ret.Albums) ELSE len(l.ret.Songs)) > 0
  THEN {l.id}
  ELSE {}

\* item.<field> = v, for a field of the item's variant.
Touch(item, v) ==
  IF item.T = TypeSong THEN [item EXCEPT !.AlbumArtist = v]
  ELSE IF item.T = TypeAlbum THEN [item EXCEPT !.Artist = v]
  ELSE IF item.T = TypeArtist THEN [item EXCEPT !.AlbumCount = IF @ = 0 THEN MaxCount ELSE 0]
  ELSE [item EXCEPT !.SongCount = IF @ = 0 THEN MaxCount ELSE 0]

\* ret.Albums[0] = v, ret.Songs[0] = v
TouchList(item, v) ==
  IF item.T = TypeArtist THEN [item EXCEPT !.Albums.elems[1] = v]
  ELSE [item EXCEPT !.Songs.elems[1] = v]

\* The caller of the last call changes the value it was handed.
CallerWrite ==
  /\ \/ \E slot \in Handed(last) : \E v \in Ids :
          /\ cache' = [cache EXCEPT ![slot] = Touch(cache[slot], v)]
          /\ last' = Call("CallerWrite", slot, cache[slot],
                          Res(cache', NoErr, Touch(cache[slot], v), <<>>, <<>>))
     \/ \E slot \in Shared(last) : \E v \in Ids :
          /\ cache' = [cache EXCEPT ![slot] = TouchList(cache[slot], v)]
          /\ last' = Call("CallerWrite", slot, cache[slot],
                          Res(cache', NoErr, TouchList(cache[slot], v), <<>>, <<>>))
  /\ UNCHANGED aside

NextCaller ==
  \/ \E id \in Ids : GetItemCall(id)
  \/ \E id \in Ids : GetAlbumCall(id)
  \/ \E id \in Ids : GetAlbumSongsCall(id)
  \/ CallerWrite

SpecCaller == Init /\ [][NextCaller]_vars

\* ------------------------------------------------------------ concurrent callers
\* Two callers run GetArtist or GetAlbum on one id at the same time.  A step is
\* one operation of the store (Get, Delete, Put, PutBatch) or one remote query
\* with the decoding of its answer; the store serialises its operations and
\* nothing else is atomic.  The server's catalog does not change during the
\* calls; the transport to it may fail at any query.
A1 == "a"

GetArtistM == "GetArtist"

GetAlbumM == "GetAlbum"

\* What the slot of A1 may hold when the callers start: nothing, or an item
\* the calls made before have left there.
Leftovers ==
  LET other == CHOOSE i \in Ids : i # A1
  IN  {Nil,
       toSong(Payload(A1, mediaTypeSong, 0, NoId, other, TRUE)),
       AssembleArtist(toArtist(Payload(A1, mediaTypeArtist, MaxCount, NoId, NoId, TRUE)), <<>>),
       toAlbum(Payload(A1, mediaTypeAlbum, MaxCount, other, NoId, TRUE))}

\* The catalog the server holds for A1: the entity, its albums and its songs.
Servers ==
  [ent : {GarbageResp} \cup {OkResp(p) : p \in ArtistPayloads(A1)}
         \cup {OkResp(p) : p \in AlbumPayloads(A1, Ids \ {A1})},
   albums : AlbumListResps(A1) \ {FailList},
   songs : SongListResps(A1) \ {FailList}]

InitConc ==
  /\ \E had \in Leftovers :
       /\ cache = [i \in Ids |-> IF i = A1 THEN had ELSE Nil]
       /\ last = Call("new", A1, had, Res(cache, NoErr, Nil, <<>>, <<>>))
  /\ lists = NoLists
  /\ server \in Servers
  /\ pc = [p \in Callers |-> "get"]
  /\ \E m \in [Callers -> {GetArtistM, GetAlbumM}] :
       loc = [p \in Callers |-> [NoLocals EXCEPT !.m = m[p]]]
  /\ sec = 0
  /\ text = <<>>

\* The call of p returns.
Return(p, err, ret, fault) ==
  /\ pc' = [pc EXCEPT ![p] = "done"]
  /\ loc' = [loc EXCEPT ![p].err = err, ![p].ret = ret,
                         ![p].fault = loc[p].fault \/ fault]

\* The call of p goes on at the step to, with its locals changed to l.
Goto(p, to, l) ==
  /\ pc' = [pc EXCEPT ![p] = to]
  /\ loc' = [loc EXCEPT ![p] = l]

\* item, found := a.cache.Get(id), and the checks of the item read.
CLookup(p) ==
  /\ pc[p] = "get"
  /\ LET look == IF loc[p].m = GetAlbumM THEN AlbumLookup(cache, A1)
                  ELSE ArtistLookup(cache, A1)
     IN  IF look = "hit" THEN Return(p, NoErr, Get(cache, A1).item, FALSE)
         ELSE IF look = "evict" THEN Goto(p, "delete", loc[p])
         ELSE Goto(p, "query", loc[p])
  /\ UNCHANGED <<cache, last, lists, server, sec, text>>

\* a.cache.Delete(id), decided on the item read at the step before.
CDelete(p) ==
  /\ pc[p] = "delete"
  /\ cache' = Delete(cache, A1)
  /\ Goto(p, "query", [loc[p] EXCEPT !.evicted = cache[A1]])
  /\ UNCHANGED <<last, lists, server, sec, text>>

\* a.get of the entity and the decoding of its payload.
CQuery(p) ==
  /\ pc[p] = "query"
  /\ \E resp \in {server.ent, FailResp} :
       LET album == loc[p].m = GetAlbumM
       IN  IF resp.st = "fail"
           THEN Return(p, IF album THEN "get album" ELSE "get artist",
                       IF album THEN ZeroAlbum ELSE ZeroArtist, TRUE)
           ELSE IF resp.st = "garbage" \/ ~resp.body.Valid
             THEN Return(p, IF album THEN "parse album" ELSE "parse artist",
                         IF album THEN ZeroAlbum ELSE ZeroArtist, FALSE)
           ELSE Goto(p, "list",
                     [loc[p] EXCEPT !.ent = IF album THEN toAlbum(resp.body)
                                            ELSE toArtist(resp.body)])
  /\ UNCHANGED <<cache, last, lists, server, sec, text>>

\* GetArtistAlbums, and GetAlbumSongs up to its loop: the listing query and the
\* decoding of its answer.
CList(p) ==
  /\ pc[p] = "list"
  /\ IF loc[p].m = GetAlbumM
     THEN \E lresp \in {server.songs, FailList} :
            IF lresp.st # "ok" THEN Return(p, "get albums songs", loc[p].ent, lresp.st = "fail")
            ELSE Goto(p, IF Len(lresp.items) = 0 THEN "mark" ELSE "puts",
                      [loc[p] EXCEPT !.kids = MapSeq(lresp.items, toSong), !.k = 1])
     ELSE \E lresp \in {server.albums, FailList} :
            LET la == GetArtistAlbums(cache, A1, lresp)
            IN  IF la.err # NoErr THEN Return(p, "get artist albums", loc[p].ent, TRUE)
                ELSE Goto(p, "batch", [loc[p] EXCEPT !.kids = la.ret.elems])
  /\ UNCHANGED <<cache, last, lists, server, sec, text>>

\* One turn of the loop of GetAlbumSongs: a.cache.Put(song.Id, song, true).
CPutSong(p) ==
  /\ pc[p] = "puts"
  /\ cache' = Put(cache, loc[p].kids[loc[p].k].Id, loc[p].kids[loc[p].k], TRUE)
  /\ Goto(p, IF loc[p].k = Len(loc[p].kids) THEN "mark" ELSE "puts",
          [loc[p] EXCEPT !.k = loc[p].k + 1])
  /\ UNCHANGED <<last, lists, server, sec, text>>

\* for _, v := range songs { v.AlbumArtist = al.Artist }: the songs of p change,
\* and with them what the store holds where it still holds a song of p.
CMark(p) ==
  /\ pc[p] = "mark"
  /\ LET songs == loc[p].kids
         mine(i) == \E j \in 1..Len(songs) : songs[j].Id = i /\ cache[i] = songs[j]
     IN  /\ cache' = [i \in Ids |->
                       IF mine(i) THEN [cache[i] EXCEPT !.AlbumArtist = loc[p].ent.Artist]
                       ELSE cache[i]]
         /\ Goto(p, "batch", [loc[p] EXCEPT !.kids = SetAlbumArtist(songs, loc[p].ent.Artist)])
  /\ UNCHANGED <<last, lists, server, sec, text>>

\* a.cache.PutBatch(items, true)
CBatch(p) ==
  /\ pc[p] = "batch"
  /\ \E reject \in 0..Len(loc[p].kids) :
       LET pb == PutBatch(cache, loc[p].kids, TRUE, reject)
       IN  /\ cache' = pb.cache
           /\ IF pb.err THEN Return(p, "store artist albums to cache", loc[p].ent, TRUE)
              ELSE Goto(p, "put", loc[p])
  /\ UNCHANGED <<last, lists, server, sec, text>>

\* The children are attached and a.cache.Put(id, &ar, true) is made.
CPut(p) ==
  /\ pc[p] = "put"
  /\ LET ids == MapSeq(loc[p].kids, IdOf)
         full == IF loc[p].m = GetAlbumM THEN AssembleAlbum(loc[p].ent, ids)
                 ELSE AssembleArtist(loc[p].ent, ids)
     IN  /\ cache' = Put(cache, A1, full, TRUE)
         /\ Return(p, NoErr, full, FALSE)
  /\ UNCHANGED <<last, lists, server, sec, text>>

NextConc ==
  \/ \E p \in Callers : CLookup(p)
  \/ \E p \in Callers : CDelete(p)
  \/ \E p \in Callers : CQuery(p)
  \/ \E p \in Callers : CList(p)
  \/ \E p \in Callers : CPutSong(p)
  \/ \E p \in Callers : CMark(p)
  \/ \E p \in Callers : CBatch(p)
  \/ \E p \in Callers : CPut(p)

SpecConc == InitConc /\ [][NextConc]_vars

\* Every stored item is stored under its own id.
TypeOK ==
  \A i \in Ids : cache[i] # Nil => cache[i].Id = i

\* ------------------------------------------------------------ claims
\* The album ids of a listing response, in its order.
ListedIds(lresp) == [i \in 1..Len(lresp.items) |-> lresp.items[i].Id]

IsArtist(item) == item # Nil /\ item.T = TypeArtist

IsAlbum(item) == item # Nil /\ item.T = TypeAlbum

\* C1: after a GetArtist(id) that returned no error, the artist returned and
\* the artist stored under id are cache-complete, and a GetArtist(id) made
\* next issues no remote query, whatever the server would answer.
C1_GetArtistLeavesComplete ==
  (last.op = "GetArtist" /\ last.err = NoErr) =>
    /\ ArtistComplete(last.ret)
    /\ IsArtist(cache[last.id]) /\ ArtistComplete(cache[last.id])
    /\ \A resp \in ArtistResps(last.id) :
         Queries(GetArtist(cache, last.id, resp, NoList, 0).log) = 0

\* C2: after a GetAlbum(id) that returned no error, a GetAlbum(id) made next
\* returns the same album without error, issues no remote query and leaves the
\* store as it is, whatever the server would answer.
C2_GetAlbumIdempotent ==
  (last.op = "GetAlbum" /\ last.err = NoErr) =>
    \A resp \in AlbumResps(last.id) :
      \A lresp \in SongListResps(last.id) :
        \A reject \in Rejects(lresp) :
          LET r == GetAlbum(cache, last.id, resp, lresp, reject)
          IN  /\ r.err = NoErr
              /\ r.ret = last.ret
              /\ Queries(r.log) = 0
              /\ r.cache = cache

\* A GetAlbum served from the store, with the songs a fetch has left there.
C2_Witness ==
  /\ last.op = "GetAlbum" /\ last.err = NoErr
  /\ Queries(last.log) = 0
  /\ len(last.ret.Songs) > 0

\* What C3 asks of a call r on a slot that held an item of another type: the
\* slot is deleted before the first query, the item held is not returned, the
\* only errors are those of the fetch, and after a success the slot holds the
\* item just fetched.
HealsSlot(c, id, r, answered, fetchErrors) ==
  /\ First(r.log, "Delete") > 0
  /\ r.log[First(r.log, "Delete")] = Ev("Delete", id)
  /\ First(r.log, "Delete") < First(r.log, "query")
  /\ r.ret # c[id]
  /\ r.err \in fetchErrors \cup {NoErr}
  /\ answered => r.err = NoErr
  /\ r.err = NoErr => r.cache[id] = r.ret /\ r.ret.Id = id
  /\ r.err # NoErr => r.cache[id] = Nil

\* C3: in every state, GetArtist(id) on a slot holding a non-Artist, and
\* GetAlbum(id) on a slot holding a non-Album, delete the slot before any
\* query, never return the item held, report no error when the server answers
\* every query, and leave under id the Artist (the Album) assembled from the
\* answers.
C3_TypeSelfHealing ==
  \A id \in Ids :
    /\ (cache[id] # Nil /\ cache[id].T # TypeArtist) =>
         \A resp \in ArtistResps(id) :
           \A lresp \in AlbumListResps(id) :
             \A reject \in Rejects(lresp) :
               LET r == GetArtist(cache, id, resp, lresp, reject)
               IN  /\ HealsSlot(cache, id, r,
                                Decodes(resp) /\ lresp.st = "ok" /\ reject = 0,
                                {"get artist", "parse artist", "get artist albums",
                                 "store artist albums to cache"})
                   /\ r.err = NoErr =>
                        /\ r.ret.T = TypeArtist
                        /\ r.ret.AlbumCount = resp.body.Count
                        /\ r.ret.Albums = MakeSlice(ListedIds(lresp))
    /\ (cache[id] # Nil /\ cache[id].T # TypeAlbum) =>
         \A resp \in AlbumResps(id) :
           \A lresp \in SongListResps(id) :
             \A reject \in Rejects(lresp) :
               LET r == GetAlbum(cache, id, resp, lresp, reject)
               IN  /\ HealsSlot(cache, id, r,
                                Decodes(resp) /\ lresp.st = "ok" /\ reject = 0,
                                {"get album", "parse album", "get albums songs",
                                 "store artist albums to cache"})
                   /\ r.err = NoErr =>
                        /\ r.ret.T = TypeAlbum
                        /\ r.ret.Artist = resp.body.Artist
                        /\ r.ret.Songs = MakeSlice(ListedIds(lresp))

\* GetArtist was called on a slot holding a Song and has left an Artist there.
C3_Witness ==
  /\ last.op = "GetArtist" /\ last.err = NoErr
  /\ last.had # Nil /\ last.had.T = TypeSong
  /\ IsArtist(cache[last.id])

\* C4: a GetArtist that succeeds with a listing of m albums for an artist the
\* server advertises with AlbumCount n # m stores an artist that is not
\* cache-complete; and in every state, GetArtist on a stored artist whose album
\* list is non-nil and of another length than its AlbumCount deletes the slot
\* and queries the server, and what it returns on success is assembled from
\* the answers.
C4_ShortListRefetched ==
  /\ (/\ last.op = "GetArtist" /\ last.err = NoErr
      /\ Len(last.resps) = 1
      /\ last.resps[1].body.Count # len(last.ret.Albums)) =>
       /\ cache[last.id] = last.ret
       /\ ~last.ret.Albums.nil
       /\ ~ArtistComplete(cache[last.id])
  /\ \A id \in Ids :
       (IsArtist(cache[id]) /\ ~cache[id].Albums.nil /\ ~ArtistComplete(cache[id])) =>
         \A resp \in ArtistResps(id) :
           \A lresp \in AlbumListResps(id) :
             \A reject \in Rejects(lresp) :
               LET r == GetArtist(cache, id, resp, lresp, reject)
               IN  /\ Queries(r.log) >= 1
                   /\ r.log[2] = Ev("Delete", id)
                   /\ r.err = NoErr =>
                        /\ Queries(r.log) = 2
                        /\ r.ret.AlbumCount = resp.body.Count
                        /\ r.ret.Albums = MakeSlice(ListedIds(lresp))

\* GetArtist has refetched an artist stored with a list shorter than its count,
\* and the server has answered with the same shortfall.
C4_Witness ==
  /\ last.op = "GetArtist" /\ last.err = NoErr
  /\ IsArtist(last.had) /\ ~last.had.Albums.nil
  /\ len(last.had.Albums) < last.had.AlbumCount
  /\ Queries(last.log) = 2
  /\ len(last.ret.Albums) < last.ret.AlbumCount

\* C5: in every state, a GetArtist(id) or GetAlbum(id) that issues no remote
\* query found under id an item of its type that is cache-complete, and returns
\* that item; so a stored item that is not cache-complete is refetched.
C5_OnlyCompleteServedFromCache ==
  \A id \in Ids :
    /\ \A resp \in ArtistResps(id) :
         \A lresp \in AlbumListResps(id) :
           LET r == GetArtist(cache, id, resp, lresp, 0)
           IN  Queries(r.log) = 0 =>
                 /\ IsArtist(cache[id]) /\ ArtistComplete(cache[id])
                 /\ r.ret = cache[id] /\ r.err = NoErr
    /\ \A resp \in AlbumResps(id) :
         \A lresp \in SongListResps(id) :
           LET r == GetAlbum(cache, id, resp, lresp, 0)
           IN  Queries(r.log) = 0 =>
                 /\ IsAlbum(cache[id]) /\ AlbumComplete(cache[id])
                 /\ r.ret = cache[id] /\ r.err = NoErr

\* GetAlbum found an Album without its songs under id and queried the server.
C5_Witness ==
  /\ last.op = "GetAlbum"
  /\ IsAlbum(last.had) /\ ~AlbumComplete(last.had)
  /\ Queries(last.log) >= 1

\* The item type GetItem is to give a payload of a media type.
VariantOf(mediaType) ==
  IF mediaType = mediaTypeArtist THEN TypeArtist
  ELSE IF mediaType = mediaTypeAlbum THEN TypeAlbum
  ELSE IF mediaType = mediaTypeSong THEN TypeSong
  ELSE TypePlaylist

\* C6: in every state, GetItem(id) on a slot that holds an item returns that
\* item, whatever its completeness, with no remote query and no change of the
\* store; and after a GetItem(id) that returned no error the store holds under
\* id the item returned, so that the GetItem(id) made next returns it again.
C6_GetItemRoundTrip ==
  /\ \A id \in Ids :
       cache[id] # Nil =>
         \A resp \in EntityResps(id) :
           LET r == GetItem(cache, id, resp)
           IN  /\ r.err = NoErr
               /\ r.ret = cache[id]
               /\ Queries(r.log) = 0
               /\ r.cache = cache
  /\ (last.op = "GetItem" /\ last.err = NoErr) =>
       /\ last.ret # Nil
       /\ cache[last.id] = last.ret
       /\ last.had # Nil => last.ret = last.had
       /\ last.had = Nil =>
            /\ Queries(last.log) = 1
            /\ last.log[Len(last.log)] = Ev("Put", last.id)

\* GetItem has fetched an album the store did not hold and has stored it.
C6_Witness ==
  /\ last.op = "GetItem" /\ last.err = NoErr
  /\ last.had = Nil
  /\ IsAlbum(cache[last.id]) /\ cache[last.id].Songs.nil

\* C7: a GetItem on a slot that holds nothing, answered with a decodable
\* payload whose Type is that of an artist, an album, a song or a playlist,
\* returns an item of that variant and stores it under the id.
C7_EveryVariantDecoded ==
  (/\ last.op = "GetItem" /\ last.had = Nil
   /\ Len(last.resps) = 1
   /\ last.resps[1].st = "ok" /\ last.resps[1].body.Valid
   /\ last.resps[1].body.Type \in
        {mediaTypeArtist, mediaTypeAlbum, mediaTypeSong, mediaTypePlaylist}) =>
    /\ last.err = NoErr
    /\ last.ret.T = VariantOf(last.resps[1].body.Type)
    /\ cache[last.id] = last.ret

\* C8: in every state, a GetItem(id) that returns an error returns a nil item,
\* has issued one remote query and no more, and leaves the store as it was.
C8_GetItemFailureLeavesStore ==
  \A id \in Ids :
    \A resp \in EntityResps(id) :
      LET r == GetItem(cache, id, resp)
      IN  r.err # NoErr =>
            /\ r.ret = Nil
            /\ Queries(r.log) = 1
            /\ r.cache = cache
            /\ resp.st = "ok" =>
                 \/ resp.body.Type \notin {mediaTypeArtist, mediaTypeAlbum, mediaTypeSong}
                 \/ ~resp.body.Valid

\* GetItem has failed on a payload it could not decode as its variant, with
\* another item in the store.
C8_Witness ==
  /\ last.op = "GetItem" /\ last.err = "decode item"
  /\ cache[last.id] = Nil
  /\ \E i \in Ids : cache[i] # Nil

\* C9: a GetSongArtistAlbum(song) returns either an Album and an Artist and no
\* error, the album being the item under song.Album and the artist the item
\* under the album's Artist, or an error and neither; it returns an error when
\* the slot of song.Album held an item that is no Album, and when the payload
\* fetched for song.Album has another type than an album's.
C9_SongArtistAlbumAllOrNothing ==
  last.op = "GetSongArtistAlbum" =>
    /\ \/ /\ last.err = NoErr
          /\ IsAlbum(last.ret.album) /\ IsArtist(last.ret.artist)
          /\ last.ret.album.Id = last.id
          /\ last.ret.artist.Id = last.ret.album.Artist
          /\ cache[last.id] = last.ret.album
          /\ cache[last.ret.album.Artist] = last.ret.artist
       \/ /\ last.err # NoErr
          /\ last.ret = NoPair
    /\ (last.had # Nil /\ last.had.T # TypeAlbum) => last.err # NoErr
    /\ (/\ last.had = Nil
        /\ \/ last.resps[1].st # "ok"
           \/ last.resps[1].body.Type # mediaTypeAlbum) => last.err # NoErr

\* GetSongArtistAlbum was called for a song whose Album is the id of a stored
\* playlist, and has returned an error.
C9_Witness ==
  /\ last.op = "GetSongArtistAlbum"
  /\ last.had # Nil /\ last.had.T = TypePlaylist
  /\ last.err = "album not found"
  /\ last.ret = NoPair

\* C10: in every state, a GetArtist(id) or GetAlbum(id) that returns an error
\* leaves the slot of id empty or holding the item it held, and the same call
\* made next does not find a cached value to return.
C10_FailedFetchStoresNoParent ==
  \A id \in Ids :
    /\ \A resp \in ArtistResps(id) :
         \A lresp \in AlbumListResps(id) :
           \A reject \in Rejects(lresp) :
             LET r == GetArtist(cache, id, resp, lresp, reject)
             IN  r.err # NoErr =>
                   /\ r.cache[id] = Nil \/ r.cache[id] = cache[id]
                   /\ ArtistLookup(r.cache, id) # "hit"
    /\ \A resp \in AlbumResps(id) :
         \A lresp \in SongListResps(id) :
           \A reject \in Rejects(lresp) :
             LET r == GetAlbum(cache, id, resp, lresp, reject)
             IN  r.err # NoErr =>
                   /\ r.cache[id] = Nil \/ r.cache[id] = cache[id]
                   /\ AlbumLookup(r.cache, id) # "hit"

\* GetArtist has failed at the batch write of the albums, after evicting an
\* artist that was not cache-complete.
C10_Witness ==
  /\ last.op = "GetArtist"
  /\ last.err = "store artist albums to cache"
  /\ IsArtist(last.had)
  /\ cache[last.id] = Nil

\* A single-entity answer that failed in transport or cannot be decoded, and a
\* listing answer of that kind.
BadResp(resp) == resp.st \in {"fail", "garbage"} \/ (resp.st = "ok" /\ ~resp.body.Valid)

BadList(lresp) == lresp.st \in {"fail", "garbage"}

\* What C11 asks of a full-detail fetch r of id whose query failed: an error,
\* and no parent newly stored under id.
FailsClean(c, id, r) ==
  /\ r.err # NoErr
  /\ r.cache[id] = Nil \/ r.cache[id] = c[id]

\* C11: in every state, a fetch that issues a remote query which fails in
\* transport or returns a payload that cannot be decoded returns an error, and
\* GetArtist and GetAlbum store no parent under the id after such a failure of
\* the entity query or of the listing query.
C11_QueryFailuresReported ==
  /\ \A id \in Ids :
       /\ \A resp \in EntityResps(id) :
            (~Get(cache, id).found /\ BadResp(resp)) => GetItem(cache, id, resp).err # NoErr
       /\ \A lresp \in AlbumListResps(id) :
            /\ BadList(lresp) => GetArtistAlbums(cache, id, lresp).err # NoErr
            /\ \A resp \in ArtistResps(id) :
                 (/\ ArtistLookup(cache, id) # "hit"
                  /\ BadResp(resp) \/ BadList(lresp)) =>
                   FailsClean(cache, id, GetArtist(cache, id, resp, lresp, 0))
       /\ \A lresp \in SongListResps(id) :
            /\ BadList(lresp) => GetAlbumSongs(cache, id, lresp).err # NoErr
            /\ \A resp \in AlbumResps(id) :
                 (/\ AlbumLookup(cache, id) # "hit"
                  /\ BadResp(resp) \/ BadList(lresp)) =>
                   FailsClean(cache, id, GetAlbum(cache, id, resp, lresp, 0))
       /\ \A lresp \in SongResps(MaxList) :
            BadList(lresp) => GetPlaylistSongs(cache, id, lresp).err # NoErr
  /\ \A lresp \in PlaylistListResps :
       \A body \in {"garbage", "json"} :
         BadList(lresp) => GetPlaylists(cache, lresp, body).err # NoErr
  /\ \A lresp \in SongResps(MaxList) :
       BadList(lresp) =>
         /\ GetSongs(cache, 0, MaxList, lresp).err # NoErr
         /\ \A id \in Ids : GetSongsById(cache, <<id>>, lresp).err # NoErr

\* All the concurrent callers have returned.
AllDone == \A p \in Callers : pc[p] = "done"

\* C12: when two callers have run GetAlbum(A1) at the same time on a store
\* that did not hold A1, against a server that holds the album and its songs
\* and with no query or write of theirs failing, then in whatever order their
\* steps were taken both have returned no error and the same album, and the
\* store holds under A1 that album, which is cache-complete.
C12_ConcurrentGetAlbumAgree ==
  (/\ AllDone
   /\ last.had = Nil
   /\ \A p \in Callers : loc[p].m = GetAlbumM /\ ~loc[p].fault
   /\ Decodes(server.ent) /\ server.songs.st = "ok") =>
    /\ \A p \in Callers : loc[p].err = NoErr
    /\ \A p, q \in Callers : loc[p].ret = loc[q].ret
    /\ IsAlbum(cache[A1]) /\ AlbumComplete(cache[A1])
    /\ \A p \in Callers : cache[A1] = loc[p].ret
    /\ cache[A1].Songs = MakeSlice(ListedIds(server.songs))

\* Both callers missed A1, both fetched the album and its songs, and both have
\* returned.
C12_Witness ==
  /\ AllDone
  /\ last.had = Nil
  /\ \A p \in Callers :
       /\ loc[p].m = GetAlbumM /\ loc[p].err = NoErr
       /\ loc[p].ent # Nil /\ Len(loc[p].kids) > 0
  /\ server.ent.body.Count # Len(server.songs.items)

\* A cache-complete artist or album.
Complete(item) ==
  \/ IsArtist(item) /\ ArtistComplete(item)
  \/ IsAlbum(item) /\ AlbumComplete(item)

\* C13: a slot that holds a cache-complete Artist or Album holds a
\* cache-complete entity after every call, unless the call has deleted the
\* slot on finding an item of another type there.  (An item of another variant
\* written over the slot is let through here: what is asked is that no call
\* leaves an incomplete entity of the same variant where a complete one was.)
C13_CompleteIsStable ==
  [][\A id \in Ids :
       Complete(cache[id]) =>
         \/ Complete(cache'[id])
         \/ \E i \in 1..Len(last'.log) : last'.log[i] = Ev("Delete", id)
         \/ cache'[id] # Nil /\ cache'[id].T # cache[id].T]_vars

\* The listing fetches of children.
ListingOps ==
  {"GetArtistAlbums", "GetAlbumSongs", "GetPlaylistSongs", "GetSongs", "GetSongsById"}

\* C14: after a listing fetch that returned no error, the store holds every
\* entity the fetch returned under the entity's id, and a GetItem of that id
\* made next returns it with no remote query, whatever the server would answer.
C14_ListingsStoreChildren ==
  (last.op \in ListingOps /\ last.err = NoErr) =>
    \A i \in 1..len(last.ret) :
      LET child == last.ret.elems[i]
      IN  /\ cache[child.Id] = child
          /\ \A resp \in EntityResps(child.Id) :
               LET r == GetItem(cache, child.Id, resp)
               IN  Queries(r.log) = 0 /\ r.err = NoErr /\ r.ret = child

\* An artist or an album with a list of the ids of its children.
HasChildList(item) ==
  \/ IsArtist(item) /\ ~item.Albums.nil
  \/ IsAlbum(item) /\ ~item.Songs.nil

\* What C15 asks of a listing fetch r of the children of id: the slot of id is
\* as it was, and every stored entity with a list of children is as it was.
LeavesParents(c, id, r) ==
  /\ r.cache[id] = c[id]
  /\ \A j \in Ids : HasChildList(r.cache[j]) => r.cache[j] = c[j]

\* C15: in every state, each listing fetch (GetArtistAlbums, GetAlbumSongs,
\* GetPlaylistSongs, GetSongs, GetSongsById), whatever the server answers,
\* leaves the entry stored under the parent id as it was, and leaves no artist
\* or album in the store with a list of children it did not have before.
C15_ListingsLeaveParents ==
  /\ \A id \in Ids :
       /\ \A lresp \in AlbumListResps(id) :
            LeavesParents(cache, id, GetArtistAlbums(cache, id, lresp))
       /\ \A lresp \in SongListResps(id) :
            LeavesParents(cache, id, GetAlbumSongs(cache, id, lresp))
       /\ \A lresp \in SongResps(MaxList) :
            /\ LeavesParents(cache, id, GetPlaylistSongs(cache, id, lresp))
            /\ \A page \in 0..MaxPage :
                 LeavesParents(cache, id, GetSongs(cache, page, MaxList, lresp))
            /\ \A ids \in SeqUpTo(Ids, MaxList) :
                 LeavesParents(cache, id, GetSongsById(cache, ids, lresp))
  /\ (last.op \in ListingOps /\ IsAlbum(last.had)) => cache[last.id] = last.had
  /\ (last.op \in ListingOps /\ IsArtist(last.had)) => cache[last.id] = last.had

\* GetAlbumSongs has listed a song of an album the store holds without its
\* songs, and the album is still stored without them.
C15_Witness ==
  /\ last.op = "GetAlbumSongs" /\ last.err = NoErr
  /\ len(last.ret) > 0
  /\ IsAlbum(last.had) /\ last.had.Songs.nil
  /\ cache[last.id] = last.had

\* The songs named by the album are stored, each with the album's artist as
\* its album-artist.
SongsResident(c, album) ==
  \A i \in 1..len(album.Songs) :
    LET s == c[album.Songs.elems[i]]
    IN  /\ s # Nil /\ s.T = TypeSong
        /\ s.Id = album.Songs.elems[i]
        /\ s.AlbumArtist = album.Artist

C17_CallersHoldCopies ==
  last.op = "CallerWrite" => cache[last.id] = last.had

C19_StoredVariantIsServers ==
  (/\ last.op \in {"GetArtist", "GetAlbum"}
   /\ last.err = NoErr
   /\ Len(last.resps) = 1) =>
    /\ cache[last.id] # Nil
    /\ cache[last.id].T = (IF last.op = "GetArtist" THEN TypeArtist ELSE TypeAlbum)
    /\ cache[last.id].T = VariantOf(last.resps[1].body.Type)

\* C20: with two callers at work on one id, what the Delete of a GetArtist or
\* GetAlbum takes out of the store is never a cache-complete entity of the
\* variant that method asks for: it is a type-mismatched or an incomplete
\* entry at the moment it is taken out.
C20_EvictionSparesComplete ==
  \A p \in Callers :
    ~ /\ Complete(loc[p].evicted)
      /\ loc[p].evicted.T = (IF loc[p].m = GetAlbumM THEN TypeAlbum ELSE TypeArtist)

\* C21: after a GetAlbum that returned no error, the album returned and the
\* album stored under the id have SongCount equal to the length of Songs, and
\* the stored album is a hit for the next GetAlbum; and in every state, a
\* GetAlbum that fetches and succeeds returns and stores an album whose
\* SongCount is the number of songs of the listing, whatever count the
\* payload advertised.
C21_AlbumCountIsSongsFetched ==
  /\ (last.op = "GetAlbum" /\ last.err = NoErr) =>
       /\ IsAlbum(last.ret)
       /\ ~last.ret.Songs.nil
       /\ last.ret.SongCount = len(last.ret.Songs)
       /\ cache[last.id] = last.ret
       /\ AlbumLookup(cache, last.id) = "hit"
  /\ \A id \in Ids :
       AlbumLookup(cache, id) # "hit" =>
         \A resp \in AlbumResps(id) :
           \A lresp \in (IF Decodes(resp) THEN SongListResps(id) ELSE {NoList}) :
             \A reject \in Rejects(lresp) :
               LET r == GetAlbum(cache, id, resp, lresp, reject)
               IN  r.err = NoErr =>
                     /\ r.ret.SongCount = Len(lresp.items)
                     /\ len(r.ret.Songs) = Len(lresp.items)
                     /\ r.cache[id] = r.ret
                     /\ AlbumLookup(r.cache, id) = "hit"

\* GetAlbum has fetched an album whose payload advertised another count than
\* the number of songs the listing held, and has returned it.
C21_Witness ==
  /\ last.op = "GetAlbum" /\ last.err = NoErr
  /\ Len(last.resps) = 1
  /\ last.resps[1].body.Type = mediaTypeAlbum
  /\ last.resps[1].body.Count # len(last.ret.Songs)
  /\ last.ret.SongCount = len(last.ret.Songs)

\* C22: in every state, a GetSongs(page, pageSize) that succeeds gives the
\* i-th song it returns, i counted from 0, the Index page*pageSize + i + 1;
\* and the indices given on two different pages of one page size are
\* different.
C22_SongIndexFollowsListing ==
  \A pageSize \in 1..MaxList :
    \A page \in 0..MaxPage :
      \A lresp \in SongResps(pageSize) :
        LET r == GetSongs(cache, page, pageSize, lresp)
        IN  r.err = NoErr =>
              /\ \A i \in 1..len(r.ret) :
                   r.ret.elems[i].Index = page * pageSize + (i - 1) + 1
              /\ \A page2 \in (0..MaxPage) \ {page} :
                   \A lresp2 \in SongResps(pageSize) :
                     LET r2 == GetSongs(cache, page2, pageSize, lresp2)
                     IN  r2.err = NoErr =>
                           \A i \in 1..len(r.ret) :
                             \A j \in 1..len(r2.ret) :
                               r.ret.elems[i].Index # r2.ret.elems[j].Index

\* The value of a digit, and of a string of digits.
DigitVal(ch) == CHOOSE d \in 0..9 : Digit(d) = ch

IsDigits(ds) == Len(ds) > 0 /\ \A i \in 1..Len(ds) : \E d \in 0..9 : Digit(d) = ds[i]

RECURSIVE Atoi(_)
Atoi(ds) ==
  IF Len(ds) = 0 THEN 0
  ELSE 10 * Atoi(SubSeq(ds, 1, Len(ds) - 1)) + DigitVal(ds[Len(ds)])

\* The fields of a string, split at its colons.
RECURSIVE Fields(_)
Fields(str) ==
  IF \A i \in 1..Len(str) : str[i] # ":" THEN <<str>>
  ELSE LET k == CHOOSE i \in 1..Len(str) :
                  str[i] = ":" /\ \A j \in (i + 1)..Len(str) : str[j] # ":"
       IN  Append(Fields(SubSeq(str, 1, k - 1)), SubSeq(str, k + 1, Len(str)))

====
